---------------------------- MODULE Spec2Model ----------------------------
(***************************************************************************)
(* eternal-timer: a file-backed timer registry with a polling expiry loop. *)
(*                                                                         *)
(* The model follows the latest revision of the two managers:              *)
(*   JSONLTimersManager      (src/unnamed/part_007)                        *)
(*   PlainTextTimersManager  (src/src/Log.ts, lines 50-249)                *)
(*   TimersManager base      (src/unnamed/part_006)                        *)
(*                                                                         *)
(* Text is modelled structurally.  A file's text is the sequence of parts  *)
(* that text.split("\n") yields (so "" is << <<>> >> and a text ending in  *)
(* a newline has an empty last part).  A line is the sequence of its       *)
(* space-separated fields, a field is the sequence of the printed pieces   *)
(* (atoms) written into it without a separator, and an atom is             *)
(* <<kind, n>>: the uuid number n, the decimal integer n, or the JSON      *)
(* string number n.  Appending to a text whose last part is not empty      *)
(* glues the first field of the appended line onto the last field of that  *)
(* part, exactly as string concatenation does.                             *)
(*                                                                         *)
(* Every await of the code is a step boundary: a file read, a stream read, *)
(* a file write and an append are separate steps, so other operations can  *)
(* interleave between them.  The files of the model are far smaller than   *)
(* one chunk of fs.createReadStream (64 KiB), so a stream delivers the     *)
(* content the file had when its single chunk was read.                    *)
(***************************************************************************)
EXTENDS Integers, Sequences, FiniteSets, TLC

\* ------------------------------------------------------------------ bounds
MaxTimers == 4      \* uuids the generator hands out
RaceTimers == 3     \* ... in Spec, where every step of a call interleaves with a pass
EnvTimers == 3      \* ... in EnvSpec, where the file is tampered with
ShapeTimers == 2    \* ... in ShapeSpec and DupSpec, the planted ids included
MaxNow == 2         \* the clock runs 1..MaxNow
MaxLength == 1      \* createTimer lengths are drawn from -1..MaxLength
MaxTamper == 1      \* times the environment deletes or scribbles on the file
MaxRestart == 1     \* times the process is stopped and a manager re-constructed
MaxCalls == 2       \* the callback invocations counted per timer (then saturating)
MaxIntervals == 1   \* checkTimers registrations alive at once

\* ------------------------------------------------------------------ values
Encodings == {"JSON", "PlainText"}
Callers == {1, 2}
\* executions of the interval callback that can be in progress at once (the
\* lock keeps all but one idle)
Slots == {1, 2}
NaN == -1           \* Number(x) of a non-numeric string; timestamps are >= 1

IdAtom(n) == <<"id", n>>
NumAtom(n) == <<"num", n>>
StrAtom(n) == <<"str", n>>

\* a generator that returns the same id on every call
UuidStuck(n) == << IdAtom(1) >>
\* uuidv4() number n as a string (one field made of one 36-character atom)
Uuid(n) == << IdAtom(n) >>
\* n.toString()
NumStr(n) == << NumAtom(n) >>

EmptyText == << <<>> >>

NoTimer == [id |-> <<>>, start |-> NaN, stop |-> NaN, title |-> 0, description |-> 0]

\* ------------------------------------------------------------- text helpers
Last(s) == s[Len(s)]
Front(s) == SubSeq(s, 1, Len(s) - 1)

\* string concatenation a + b of two newline-free strings
ConcatLine(a, b) ==
    IF a = <<>> THEN b
    ELSE IF b = <<>> THEN a
    ELSE Front(a) \o << Last(a) \o Head(b) >> \o Tail(b)

\* text + line + "\n"
AppendLine(text, line) == Front(text) \o << ConcatLine(Last(text), line), <<>> >>

\* the lines left by .filter(l => l.trim() !== "")
NonBlank(text) == SelectSeq(text, LAMBDA l : l # <<>>)

\* String(x).length === 36 : exactly one uuid atom (every other atom
\* combination the model writes has another length)
HasUuidLength(field) == Len(field) = 1 /\ field[1][1] = "id"

\* Number(field)
ToNumber(field) ==
    IF Len(field) = 1 /\ field[1][1] = "num" THEN field[1][2] ELSE NaN


\* ------------------------------------------------------------- record codec
\* Both managers hand the callback and showTimers a Timer object
\* {id, start, stop, title?, description?}; an absent title/description is 0.
Timer(id, start, stop, title, description) ==
    [id |-> id, start |-> start, stop |-> stop,
     title |-> title, description |-> description]

\* PlainText createTimer: `${id} ${now.toString()} ${(now + length).toString()}`
PlainEncode(id, start, stop) == << id, NumStr(start), NumStr(stop) >>

\* PlainText decode of a non-blank line: line.split(" "), Number(startStr),
\* Number(stopStr); Number(undefined) is NaN
PlainDecode(line) ==
    Timer(line[1],
          IF Len(line) >= 2 THEN ToNumber(line[2]) ELSE NaN,
          IF Len(line) >= 3 THEN ToNumber(line[3]) ELSE NaN,
          0, 0)

\* const [timerId] = line.split(" ")
PlainLineId(line) == line[1]

\* PlainText checkTimerfileSyntax, one line: three fields, the first 36 long
\* (the two .trim() === "" tests never fire after split(/\s+/))
PlainLineOk(line) == Len(line) = 3 /\ HasUuidLength(line[1])

\* a JSON property value: absent, or one value
StrField(s) == IF s = 0 THEN <<>> ELSE << StrAtom(s) >>
StrOf(field) == IF Len(field) = 1 /\ field[1][1] = "str" THEN field[1][2] ELSE 0

\* a stringify that leaves the optional properties out
JsonEncodeUntitled(id, start, stop, title, description) ==
    << id, NumStr(start), NumStr(stop), <<>>, <<>> >>

\* JSON.stringify({id, start, stop, ...title, ...description}): the line holds
\* the five property values in order, an undefined one left out
JsonEncode(id, start, stop, title, description) ==
    << id, NumStr(start), NumStr(stop), StrField(title), StrField(description) >>

\* JSON.parse(line) succeeds: an object text with one value per property
JsonParses(line) == Len(line) = 5 /\ \A i \in 1..5 : Len(line[i]) <= 1

\* the parsed object as a Timer; Number(timerData.stop)
JsonDecode(line) ==
    Timer(line[1], ToNumber(line[2]), ToNumber(line[3]), StrOf(line[4]), StrOf(line[5]))

\* a property value that `parsed.title && ...` takes for false: absent, or the
\* number 0
Falsy(field) == field = <<>> \/ field = << NumAtom(0) >>

\* JSON checkTimerfileSyntax, one line (JSON.parse throws on a bad text)
JsonLineOk(line) ==
    /\ JsonParses(line)
    /\ HasUuidLength(line[1])
    /\ ToNumber(line[2]) # NaN /\ ToNumber(line[2]) # 0
    /\ ToNumber(line[3]) # NaN /\ ToNumber(line[3]) # 0
    /\ (Falsy(line[4]) \/ line[4][1][1] = "str")
    /\ (Falsy(line[5]) \/ line[5][1][1] = "str")

\* a validation that accepts every file
SyntaxOkSkipped(enc, text) == TRUE
\* checkTimerfileSyntax(fileData) does not throw
SyntaxOk(enc, text) ==
    \A i \in 1..Len(NonBlank(text)) :
        IF enc = "JSON" THEN JsonLineOk(NonBlank(text)[i])
                        ELSE PlainLineOk(NonBlank(text)[i])

\* the line createTimer appends
Encode(enc, id, start, stop, title, description) ==
    IF enc = "JSON" THEN JsonEncode(id, start, stop, title, description)
                    ELSE PlainEncode(id, start, stop)

\* decoding a line the way checkTimers and showTimers do, and whether it throws
Decodes(enc, line) == enc = "JSON" => JsonParses(line)
Decode(enc, line) == IF enc = "JSON" THEN JsonDecode(line) ELSE PlainDecode(line)

\* the id removeTimer compares with its argument
LineId(enc, line) == IF enc = "JSON" THEN line[1] ELSE PlainLineId(line)

\* removeTimer's rewrite of the lines it keeps.
\*   JSON:      newTimersData += JSON.stringify(timerData) + "\n"  per line
\*   PlainText: newTimersDataLines.join("\n")        (no final newline)
\* a rewrite that writes every property as a string
JsonValueQuoted(field) == IF Len(field) = 1 THEN << StrAtom(field[1][2]) >> ELSE <<>>
\* JSON.stringify of one property of the parsed object: the value it was
\* parsed from, nothing for an absent property
JsonValue(field) == IF Len(field) = 1 THEN field ELSE <<>>
JsonRewrite(kept) ==
    [i \in 1..Len(kept) |-> [j \in 1..5 |-> JsonValue(kept[i][j])]] \o << <<>> >>
PlainRewrite(kept) == IF kept = <<>> THEN EmptyText ELSE kept

Rewrite(enc, kept) == IF enc = "JSON" THEN JsonRewrite(kept) ELSE PlainRewrite(kept)

\* a loop that loses the last line it keeps
KeptLinesShort(enc, text, id) ==
    IF SelectSeq(NonBlank(text), LAMBDA l : LineId(enc, l) # id) = <<>> THEN <<>>
    ELSE Front(SelectSeq(NonBlank(text), LAMBDA l : LineId(enc, l) # id))
\* the lines removeTimer(id) keeps and the ones it drops, out of the lines
\* its stream delivered
KeptLines(enc, text, id) == SelectSeq(NonBlank(text), LAMBDA l : LineId(enc, l) # id)
DroppedLines(enc, text, id) == SelectSeq(NonBlank(text), LAMBDA l : LineId(enc, l) = id)

\* Number(timer.stop) <= now   (a comparison with NaN is false)
Expired(stop, t) == stop # NaN /\ stop <= t

\* showTimers: every non-blank line decoded
RECURSIVE DecodeAll(_, _)
DecodeAll(enc, lines) ==
    IF lines = <<>> THEN <<>>
    ELSE << Decode(enc, Head(lines)) >> \o DecodeAll(enc, Tail(lines))

\* ------------------------------------------------------------------- state
VARIABLES
    encoding,    \* which manager class was constructed; fixed for its lifetime
    file,        \* [exists, text]: the file at timerfiledir
    now,         \* Date.now()
    uuids,       \* how many ids uuidv4() has returned
    checkLock,   \* TimersManager.checkLock
    intervals,   \* live setInterval handles returned by checkTimers
    pass,        \* the executions of the setInterval callback, per slot
    caller,      \* the createTimer/removeTimer/showTimers call of each caller
    running,     \* ids whose callback promise has not settled yet
    hist         \* history, read by no operation of the manager:
                 \*   born[n]     stop time of timer n once its line is appended, else 0
                 \*   opts[n]     the title and description in the record of timer n, from
                 \*               its createTimer to its removeTimer or callback
                 \*   live        timers appended and not removed by a completed removeTimer
                 \*   persisted   what showTimers() would have listed at the last restart
                 \*   calls[n]    callback invocations for uuid n (0: not a uuid)
                 \*   dropped     a tick returned at the lock test during this pass
                 \*   recovered   the pass before the current one ended by an error
                 \*   tampers, restarts   environment events so far

vars == << encoding, file, now, uuids, checkLock, intervals, pass, caller,
           running, hist >>

Lengths == -1..MaxLength
\* createTimer options: none, or a title and a description
Options == { <<0, 0>>, <<1, 2>> }

\* a line no encoding accepts: one field, a bare number
Garbage == << NumStr(0) >>

IdlePass == [pc |-> "idle", lines |-> <<>>, cur |-> NoTimer,
             text |-> EmptyText, dropped |-> <<>>, why |-> "none", due |-> <<>>]

IdleCall == [pc |-> "idle", op |-> "none", len |-> 0, opt |-> <<0, 0>>, id |-> <<>>,
             line |-> <<>>, text |-> EmptyText, result |-> "none", shown |-> <<>>]

\* a call's promise settles with `result`
Settle(call, result) == [call EXCEPT !.pc = "done", !.result = result]

\* the uuid number of an id, 0 for a string that is no uuid
IdNum(id) == IF HasUuidLength(id) THEN id[1][2] ELSE 0
Min2(a, b) == IF a < b THEN a ELSE b

\* ids of the records a showTimers() would list for file f
ListedIdsOf(f) ==
    IF f.exists
      THEN { LineId(encoding, NonBlank(f.text)[i]) : i \in 1..Len(NonBlank(f.text)) }
      ELSE {}
ListedIds == ListedIdsOf(file)

\* the records a showTimers() returns for file f, none if it throws
Listing(f) ==
    IF f.exists /\ \A i \in 1..Len(NonBlank(f.text)) : Decodes(encoding, NonBlank(f.text)[i])
      THEN DecodeAll(encoding, NonBlank(f.text))
      ELSE <<>>

\* TimersManager constructor: the file is created empty only when absent
Construct(f) == IF f.exists THEN f ELSE [exists |-> TRUE, text |-> EmptyText]

Init ==
    /\ encoding \in Encodings
    /\ file = Construct([exists |-> FALSE, text |-> EmptyText])
    /\ now = 1
    /\ uuids = 0
    /\ checkLock = FALSE
    /\ intervals = 0
    /\ pass = [p \in Slots |-> IdlePass]
    /\ caller = [c \in Callers |-> IdleCall]
    /\ running = {}
    /\ hist = [born |-> [n \in 1..MaxTimers |-> 0],
               opts |-> [n \in 0..MaxTimers |-> <<0, 0>>], live |-> {}, persisted |-> <<>>,
               calls |-> [n \in 0..MaxTimers |-> 0], dropped |-> FALSE,
               recovered |-> FALSE, tampers |-> 0, restarts |-> 0]

\* nothing has been called on the manager yet
PassIdleAtStart ==
    /\ intervals = 0
    /\ \A p \in Slots : pass[p].pc = "idle"
    /\ \A c \in Callers : caller[c].pc = "idle"

\* ------------------------------------------------------------- environment
\* time passes
ClockTick ==
    /\ now < MaxNow
    /\ now' = now + 1
    /\ UNCHANGED << encoding, file, uuids, checkLock, intervals, pass, caller,
                    running, hist >>

\* the file is deleted from outside the process: later reads fail (ENOENT)
Unlink ==
    /\ hist.tampers < MaxTamper
    /\ file.exists
    /\ file' = [exists |-> FALSE, text |-> EmptyText]
    /\ hist' = [hist EXCEPT !.tampers = @ + 1]
    /\ UNCHANGED << encoding, now, uuids, checkLock, intervals, pass, caller, running >>

\* a malformed line is appended to the file from outside the process
Scribble ==
    /\ hist.tampers < MaxTamper
    /\ file.exists
    /\ file' = [file EXCEPT !.text = AppendLine(@, Garbage)]
    /\ hist' = [hist EXCEPT !.tampers = @ + 1]
    /\ UNCHANGED << encoding, now, uuids, checkLock, intervals, pass, caller, running >>

\* the manager is constructed on a file that something else wrote: `text` is
\* there before the first call, and the ids in it are taken
Plant(text, ids) ==
    /\ hist.tampers < MaxTamper
    /\ uuids = 0
    /\ PassIdleAtStart
    /\ file' = [exists |-> TRUE, text |-> text]
    /\ uuids' = ids
    /\ hist' = [hist EXCEPT !.tampers = @ + 1]
    /\ UNCHANGED << encoding, now, checkLock, intervals, pass, caller, running >>

\* the process stops at an arbitrary point and a new manager of the same
\* class is constructed on the same path
Restart ==
    /\ hist.restarts < MaxRestart
    /\ file' = Construct(file)
    /\ checkLock' = FALSE
    /\ intervals' = 0
    /\ pass' = [p \in Slots |-> IdlePass]
    /\ caller' = [c \in Callers |-> IdleCall]
    /\ running' = {}
    /\ hist' = [hist EXCEPT !.restarts = @ + 1, !.persisted = Listing(file),
                            !.dropped = FALSE, !.recovered = FALSE]
    /\ UNCHANGED << encoding, now, uuids >>

\* --------------------------------------------------------------- createTimer
\* createTimer up to its first file operation completing: the length test,
\* readFile, checkTimerfileSyntax, then id, now and the new line
CreateTimer(c, length, opt) ==
    /\ caller[c].pc = "idle"
    /\ LET call == [IdleCall EXCEPT !.op = "create", !.len = length] IN
       IF length < 0
         THEN /\ caller' = [caller EXCEPT ![c] = Settle(call, "invalid_length")]
              /\ UNCHANGED uuids
       ELSE IF ~file.exists
         THEN /\ caller' = [caller EXCEPT ![c] = Settle(call, "io")]
              /\ UNCHANGED uuids
       ELSE IF ~SyntaxOk(encoding, file.text)
         THEN /\ caller' = [caller EXCEPT ![c] = Settle(call, "syntax")]
              /\ UNCHANGED uuids
       ELSE /\ uuids < MaxTimers
            /\ uuids' = uuids + 1
            /\ caller' = [caller EXCEPT ![c] =
                  [call EXCEPT !.pc = "create_append",
                               !.opt = opt,
                               !.id = Uuid(uuids + 1),
                               !.line = Encode(encoding, Uuid(uuids + 1), now,
                                               now + length, opt[1], opt[2])]]
    /\ UNCHANGED << encoding, file, now, checkLock, intervals, pass, running, hist >>

\* fs.promises.appendFile(path, newTimerData + "\n"), which creates a missing
\* file, and the return of the id
CreateAppend(c) ==
    /\ caller[c].pc = "create_append"
    /\ file' = [exists |-> TRUE,
                text |-> AppendLine(IF file.exists THEN file.text ELSE EmptyText,
                                    caller[c].line)]
    /\ caller' = [caller EXCEPT ![c] =
                      Settle([@ EXCEPT !.line = <<>>, !.opt = <<0, 0>>], "ok")]
    /\ hist' = [hist EXCEPT !.born[IdNum(caller[c].id)] =
                                Decode(encoding, caller[c].line).stop,
                            !.opts[IdNum(caller[c].id)] =
                                IF encoding = "JSON" THEN caller[c].opt ELSE <<0, 0>>,
                            !.live = @ \cup { IdNum(caller[c].id) }]
    /\ UNCHANGED << encoding, now, uuids, checkLock, intervals, pass, running >>

\* --------------------------------------------------------------- removeTimer
\* removeTimer's stream loop over the content `text`: a line that does not
\* parse throws, no line with the id throws not-found
ScanResult(enc, text, id) ==
    IF \E i \in 1..Len(NonBlank(text)) : ~Decodes(enc, NonBlank(text)[i]) THEN "syntax"
    ELSE IF DroppedLines(enc, text, id) = <<>> THEN "not_found"
    ELSE "ok"

\* removeTimer(id) up to readFile and checkTimerfileSyntax
RemoveTimer(c, id) ==
    /\ caller[c].pc = "idle"
    /\ LET call == [IdleCall EXCEPT !.op = "remove", !.id = id] IN
       caller' = [caller EXCEPT ![c] =
          IF ~file.exists THEN Settle(call, "io")
          ELSE IF ~SyntaxOk(encoding, file.text) THEN Settle(call, "syntax")
          ELSE [call EXCEPT !.pc = "remove_stream"]]
    /\ UNCHANGED << encoding, file, now, uuids, checkLock, intervals, pass,
                    running, hist >>

\* the readline loop over fs.createReadStream and the not-found test
RemoveStream(c) ==
    /\ caller[c].pc = "remove_stream"
    /\ caller' = [caller EXCEPT ![c] =
          IF ~file.exists THEN Settle(@, "io")
          ELSE IF ScanResult(encoding, file.text, @.id) # "ok"
            THEN Settle(@, ScanResult(encoding, file.text, caller[c].id))
          ELSE [@ EXCEPT !.pc = "remove_write",
                         !.text = Rewrite(encoding,
                                    KeptLines(encoding, file.text, caller[c].id))]]
    /\ UNCHANGED << encoding, file, now, uuids, checkLock, intervals, pass,
                    running, hist >>

\* fs.promises.writeFile(path, newTimersData): a full overwrite
RemoveWrite(c) ==
    /\ caller[c].pc = "remove_write"
    /\ file' = [exists |-> TRUE, text |-> caller[c].text]
    /\ caller' = [caller EXCEPT ![c] = Settle([@ EXCEPT !.text = EmptyText], "ok")]
    /\ hist' = [hist EXCEPT !.live = @ \ { IdNum(caller[c].id) },
                            !.opts[IdNum(caller[c].id)] = <<0, 0>>]
    /\ UNCHANGED << encoding, now, uuids, checkLock, intervals, pass, running >>

\* ---------------------------------------------------------------- showTimers
\* one readFile, then every non-blank line decoded
ShowTimers(c) ==
    /\ caller[c].pc = "idle"
    /\ LET call == [IdleCall EXCEPT !.op = "show"] IN
       caller' = [caller EXCEPT ![c] =
          IF ~file.exists THEN Settle(call, "io")
          ELSE IF \E i \in 1..Len(NonBlank(file.text)) :
                     ~Decodes(encoding, NonBlank(file.text)[i])
            THEN Settle(call, "syntax")
          ELSE Settle([call EXCEPT !.shown = DecodeAll(encoding, NonBlank(file.text))],
                      "ok")]
    /\ UNCHANGED << encoding, file, now, uuids, checkLock, intervals, pass,
                    running, hist >>

\* the caller has taken the settled promise's outcome
Return(c) ==
    /\ caller[c].pc = "done"
    /\ caller' = [caller EXCEPT ![c] = IdleCall]
    /\ UNCHANGED << encoding, file, now, uuids, checkLock, intervals, pass,
                    running, hist >>

\* ---------------------------------------------------------------- checkTimers
\* checkTimers(callback, interval): setInterval is registered and its handle
\* returned at once; nothing else happens in the call
CheckTimers ==
    /\ intervals < MaxIntervals
    /\ intervals' = intervals + 1
    /\ UNCHANGED << encoding, file, now, uuids, checkLock, pass, caller, running, hist >>

\* a cancellation that also throws away the executions in progress
ClearIntervalAborting ==
    /\ intervals > 0
    /\ intervals' = intervals - 1
    /\ pass' = [p \in Slots |-> IdlePass]
    /\ UNCHANGED << encoding, file, now, uuids, checkLock, caller, running, hist >>

\* clearInterval(handle)
ClearInterval ==
    /\ intervals > 0
    /\ intervals' = intervals - 1
    /\ UNCHANGED << encoding, file, now, uuids, checkLock, pass, caller, running, hist >>

\* if (this.checkLock) return;
LockTestNever(lock) == FALSE
LockTest(lock) == lock

\* the lowest slot that holds no execution
FreeSlot == CHOOSE p \in Slots :
                pass[p].pc = "idle" /\ \A q \in Slots : q < p => pass[q].pc # "idle"

\* an interval fires: the lock test, then this.checkLock = true and the
\* stream is created
TickFire ==
    /\ intervals > 0
    /\ IF LockTest(checkLock)
         THEN /\ hist' = [hist EXCEPT !.dropped = TRUE]
              /\ UNCHANGED << checkLock, pass >>
         ELSE /\ \E p \in Slots : pass[p].pc = "idle"
              /\ checkLock' = TRUE
              /\ pass' = [pass EXCEPT ![FreeSlot] = [IdlePass EXCEPT !.pc = "open"]]
              /\ UNCHANGED hist
    /\ UNCHANGED << encoding, file, now, uuids, intervals, caller, running >>

\* the pass leaves its try block by an error; the catch block logs it and
\* the finally block follows
FailUncaught(ps, why) == [ps EXCEPT !.pc = "crashed", !.why = why]
FailUnreleased(ps, why) == [IdlePass EXCEPT !.why = why]
Fail(ps, why) == [ps EXCEPT !.pc = "finally", !.why = why]

\* pass.due is history, read by no operation: the ids of the records that had
\* expired when the pass read the file and for which the pass has not called
\* the callback yet, in the order of their lines
StillDue(due, id) == SelectSeq(due, LAMBDA d : d # id)
DueIds(enc, lines, t) ==
    LET due == SelectSeq(lines, LAMBDA l : Decodes(enc, l) /\ Expired(Decode(enc, l).stop, t))
    IN  [i \in 1..Len(due) |-> LineId(enc, due[i])]

\* the stream's chunk is read: the lines of the file as it is now
PassOpen(p) ==
    /\ pass[p].pc = "open"
    /\ pass' = [pass EXCEPT ![p] =
          IF ~file.exists THEN Fail(@, "read")
          ELSE [@ EXCEPT !.pc = "loop", !.lines = NonBlank(file.text),
                         !.due = DueIds(encoding, NonBlank(file.text), now)]]
    /\ UNCHANGED << encoding, file, now, uuids, checkLock, intervals, caller,
                    running, hist >>

\* one iteration of `for await (const line of rl)` up to the expiry test, or
\* the end of the loop
PassLine(p) ==
    /\ pass[p].pc = "loop"
    /\ pass' = [pass EXCEPT ![p] =
          IF @.lines = <<>> THEN [@ EXCEPT !.pc = "finally"]
          ELSE IF ~Decodes(encoding, Head(@.lines)) THEN Fail(@, "decode")
          ELSE IF Expired(Decode(encoding, Head(pass[p].lines)).stop, now)
            THEN [@ EXCEPT !.pc = "rm_read", !.lines = Tail(pass[p].lines),
                           !.cur = Decode(encoding, Head(pass[p].lines))]
          ELSE [@ EXCEPT !.lines = Tail(pass[p].lines)]]
    /\ UNCHANGED << encoding, file, now, uuids, checkLock, intervals, caller,
                    running, hist >>

\* await this.removeTimer(timer.id): readFile and checkTimerfileSyntax
PassRemoveRead(p) ==
    /\ pass[p].pc = "rm_read"
    /\ pass' = [pass EXCEPT ![p] =
          IF ~file.exists \/ ~SyntaxOk(encoding, file.text) THEN Fail(@, "remove")
          ELSE [@ EXCEPT !.pc = "rm_stream"]]
    /\ UNCHANGED << encoding, file, now, uuids, checkLock, intervals, caller,
                    running, hist >>

\* ... its readline loop and not-found test
PassRemoveStream(p) ==
    /\ pass[p].pc = "rm_stream"
    /\ pass' = [pass EXCEPT ![p] =
          IF ~file.exists \/ ScanResult(encoding, file.text, @.cur.id) # "ok"
            THEN Fail(@, "remove")
          ELSE [@ EXCEPT !.pc = "rm_write",
                         !.text = Rewrite(encoding,
                                    KeptLines(encoding, file.text, pass[p].cur.id)),
                         !.dropped = DecodeAll(encoding,
                                    DroppedLines(encoding, file.text, pass[p].cur.id))]]
    /\ UNCHANGED << encoding, file, now, uuids, checkLock, intervals, caller,
                    running, hist >>

\* ... its writeFile
PassRemoveWrite(p) ==
    /\ pass[p].pc = "rm_write"
    /\ file' = [exists |-> TRUE, text |-> pass[p].text]
    /\ pass' = [pass EXCEPT ![p].pc = "callback", ![p].text = EmptyText]
    /\ hist' = [hist EXCEPT !.live = @ \ { IdNum(pass[p].cur.id) }]
    /\ UNCHANGED << encoding, now, uuids, checkLock, intervals, caller, running >>

\* what the user's callback does when called: it returns a promise that is
\* still pending when the pass goes on (and resolves or rejects later), or
\* one that has settled by then, or it throws (or returns no promise, so
\* that .catch throws)
Outcomes == {"pending", "settled", "throws"}

\* the timer handed to the callback
CallbackArg(ps) == ps.cur

\* whether the pass goes on with the next line after callback(timer).catch(...)
ContinuesAfter(outcome) == outcome # "throws"

\* callback(timer).catch(...): the call is made and not awaited
PassCallback(p, outcome) ==
    /\ pass[p].pc = "callback"
    /\ hist' = [hist EXCEPT !.calls[IdNum(CallbackArg(pass[p]).id)] = Min2(@ + 1, MaxCalls),
                            !.opts[IdNum(pass[p].cur.id)] = <<0, 0>>]
    /\ IF ContinuesAfter(outcome)
         THEN /\ running' = IF outcome = "pending" THEN running \cup { pass[p].cur.id }
                                                   ELSE running
              /\ pass' = [pass EXCEPT ![p].pc = "loop", ![p].dropped = <<>>,
                                       ![p].due = StillDue(@, pass[p].cur.id)]
         ELSE /\ pass' = [pass EXCEPT ![p] =
                            Fail([@ EXCEPT !.dropped = <<>>,
                                           !.due = StillDue(@, pass[p].cur.id)], "callback")]
              /\ UNCHANGED running
    /\ UNCHANGED << encoding, file, now, uuids, checkLock, intervals, caller >>

\* the promise a callback returned settles; a rejection runs the .catch
\* handler, which only logs
CallbackSettle(id) ==
    /\ id \in running
    /\ running' = running \ { id }
    /\ UNCHANGED << encoding, file, now, uuids, checkLock, intervals, pass,
                    caller, hist >>

\* the catch block has logged, if it ran; finally: this.checkLock = false
PassFinally(p) ==
    /\ pass[p].pc = "finally"
    /\ checkLock' = FALSE
    /\ pass' = [pass EXCEPT ![p] = IdlePass]
    /\ hist' = [hist EXCEPT !.dropped = FALSE, !.recovered = (pass[p].why # "none")]
    /\ UNCHANGED << encoding, file, now, uuids, intervals, caller, running >>

\* ------------------------------------------------------------ specifications
\* ids a caller may pass to removeTimer: any id handed out so far
KnownIds == { Uuid(n) : n \in 1..uuids }

PassIdle == \A p \in Slots : pass[p].pc = "idle"

PollerStep(outcomes) ==
    \/ TickFire
    \/ \E p \in Slots : PassOpen(p)
    \/ \E p \in Slots : PassLine(p)
    \/ \E p \in Slots : PassRemoveRead(p)
    \/ \E p \in Slots : PassRemoveStream(p)
    \/ \E p \in Slots : PassRemoveWrite(p)
    \/ \E p \in Slots, o \in outcomes : PassCallback(p, o)
    \/ \E p \in Slots : PassFinally(p)

CallerStep(c, opts) ==
    \/ \E l \in Lengths, o \in opts : CreateTimer(c, l, o)
    \/ CreateAppend(c)
    \/ \E id \in KnownIds : RemoveTimer(c, id)
    \/ RemoveStream(c)
    \/ RemoveWrite(c)
    \/ Return(c)

\* SeqSpec: one caller whose calls follow one another, and no poller.
SeqNext ==
    \/ ClockTick
    \/ CallerStep(1, Options)
    \/ ShowTimers(1)

SeqSpec == Init /\ [][SeqNext]_vars

\* Spec: one caller creating and removing timers, the poller and the clock
\* in every interleaving of their steps.
Next ==
    \/ ClockTick
    \/ CallerStep(1, { <<1, 2>> }) /\ uuids' <= RaceTimers
    \/ CheckTimers
    \/ PollerStep({"settled"})

Spec == Init /\ [][Next]_vars

\* PollSpec: one poller and a caller creating timers, without interference:
\* a createTimer call runs while no pass is in progress, and a pass runs
\* while no call is in progress.
PollNext ==
    \/ ClockTick
    \/ CheckTimers
    \/ /\ PassIdle
       /\ \/ \E l \in Lengths : CreateTimer(1, l, <<1, 2>>)
          \/ CreateAppend(1)
          \/ Return(1)
    \/ caller[1].pc = "idle" /\ PollerStep(Outcomes)
    \/ \E id \in running : CallbackSettle(id)

PollSpec == Init /\ [][PollNext]_vars

\* The clock advances, the interval is registered and keeps firing, file
\* operations complete and promises settle.  The poller's fairness is strong
\* because each call of the caller suspends it for a moment.
FairPollSpec ==
    /\ PollSpec
    /\ WF_vars(ClockTick)
    /\ WF_vars(CheckTimers)
    /\ WF_vars(PassIdle /\ (CreateAppend(1) \/ Return(1)))
    /\ SF_vars(caller[1].pc = "idle" /\ PollerStep(Outcomes))
    /\ WF_vars(\E id \in running : CallbackSettle(id))

\* RestartSpec: PollSpec's caller and poller until the process is stopped, at
\* any point, and a new manager is constructed on the same file; on the new
\* instance showTimers() is called and a poller is started.
RestartNext ==
    \/ ClockTick
    \/ CheckTimers
    \/ /\ PassIdle
       /\ hist.restarts = 0
       /\ \/ \E l \in Lengths : CreateTimer(1, l, <<1, 2>>)
          \/ CreateAppend(1)
    \/ /\ PassIdle
       /\ \/ hist.restarts > 0 /\ ShowTimers(1)
          \/ Return(1)
    \/ caller[1].pc = "idle" /\ PollerStep({"settled", "throws"})
    \/ Restart

RestartSpec == Init /\ [][RestartNext]_vars

FairRestartSpec ==
    /\ RestartSpec
    /\ WF_vars(ClockTick)
    /\ WF_vars(CheckTimers)
    /\ WF_vars(PassIdle /\ Return(1))
    /\ SF_vars(caller[1].pc = "idle" /\ PollerStep({"settled", "throws"}))

\* As FairRestartSpec, and a createTimer call that has built its line also
\* appends it unless the process stops first.
FairStopSpec ==
    /\ RestartSpec
    /\ WF_vars(ClockTick)
    /\ WF_vars(CheckTimers)
    /\ WF_vars(PassIdle /\ hist.restarts = 0 /\ CreateAppend(1))
    /\ WF_vars(PassIdle /\ Return(1))
    /\ SF_vars(caller[1].pc = "idle" /\ PollerStep({"settled", "throws"}))

\* EnvSpec: PollSpec's caller and poller, and a file that is deleted or
\* scribbled on from outside at any point.
EnvNext ==
    \/ PollNext /\ uuids' <= EnvTimers
    \/ Unlink
    \/ Scribble

EnvSpec == Init /\ [][EnvNext]_vars

FairEnvSpec ==
    /\ EnvSpec
    /\ WF_vars(ClockTick)
    /\ WF_vars(CheckTimers)
    /\ WF_vars(PassIdle /\ (CreateAppend(1) \/ Return(1)))
    /\ SF_vars(caller[1].pc = "idle" /\ PollerStep(Outcomes))
    /\ WF_vars(\E id \in running : CallbackSettle(id))

\* TamperSpec: SeqSpec's caller, and a file that is deleted or scribbled on
\* from outside between or during its calls.
TamperNext ==
    \/ SeqNext
    \/ Unlink
    \/ Scribble

TamperSpec == Init /\ [][TamperNext]_vars

\* CancelSpec: PollSpec's caller and poller, and a handle that is cancelled
\* at any point, also in the middle of a pass.
CancelNext ==
    \/ PollNext
    \/ ClearInterval

CancelSpec == Init /\ [][CancelNext]_vars

\* As FairPollSpec, but nothing obliges checkTimers to be called again after
\* a cancellation.
FairCancelSpec ==
    /\ CancelSpec
    /\ WF_vars(ClockTick)
    /\ WF_vars(PassIdle /\ (CreateAppend(1) \/ Return(1)))
    /\ SF_vars(caller[1].pc = "idle" /\ PollerStep(Outcomes))
    /\ WF_vars(\E id \in running : CallbackSettle(id))

\* lines of every shape a file written by something else may hold
\*   PlainText: two to four fields; the id a uuid or a short word, the
\*              timestamps numbers or words
\*   JSON:      an object with a uuid or another string as id, a number, a
\*              string or nothing as start and stop, and a string, the number
\*              1, the number 0 or nothing as title and description; or a
\*              text that is no JSON
IdFields == { Uuid(1), << StrAtom(1) >> }
StampFields == { NumStr(1), NumStr(2), << StrAtom(1) >> }
PlainShapes ==
    { << i, a >> : i \in IdFields, a \in StampFields }
      \cup { << i, a, b >> : i \in IdFields, a \in StampFields, b \in StampFields }
      \cup { << i, a, b, b >> : i \in IdFields, a \in StampFields, b \in StampFields }
JsonShapes ==
    { << i, a, b, t, d >> :
        i \in IdFields, a \in StampFields \cup { <<>> }, b \in StampFields \cup { <<>> },
        t \in { <<>>, << StrAtom(1) >>, << NumAtom(1) >>, << NumAtom(0) >> },
        d \in { <<>>, << StrAtom(2) >>, << NumAtom(0) >> } }
      \cup { Garbage }
Shapes(enc) == IF enc = "JSON" THEN JsonShapes ELSE PlainShapes

\* ShapeSpec: the manager is constructed on a file holding one line of any
\* shape, and SeqSpec's caller uses it.
ShapeNext ==
    \/ uuids = 0 /\ \E line \in Shapes(encoding) : Plant(<< line, <<>> >>, 1)
    \/ SeqNext /\ uuids' <= ShapeTimers

ShapeSpec == Init /\ [][ShapeNext]_vars

\* TitleSpec: PollSpec with a caller that gives a title and a description to
\* some of its timers and calls showTimers() between the passes.
TitleNext ==
    \/ ClockTick
    \/ CheckTimers
    \/ /\ PassIdle
       /\ \/ \E l \in Lengths, o \in Options : CreateTimer(1, l, o)
          \/ CreateAppend(1)
          \/ ShowTimers(1)
          \/ Return(1)
    \/ caller[1].pc = "idle" /\ PollerStep({"settled"})

TitleSpec == Init /\ [][TitleNext]_vars

\* files in which the id of timer 1 is on two lines with different stop
\* times, next to a line of timer 2
DupLine(n, stop) == Encode(encoding, Uuid(n), 1, stop, 0, 0)
DupTexts ==
    UNION { { << DupLine(1, a), DupLine(1, b), DupLine(2, c), <<>> >>,
              << DupLine(1, a), DupLine(2, c), DupLine(1, b), <<>> >>,
              << DupLine(2, c), DupLine(1, a), DupLine(1, b), <<>> >> } :
            a \in 1..MaxNow, b \in 1..MaxNow, c \in 1..MaxNow }

\* DupSpec: the manager is constructed on a file that holds an id twice, and
\* a poller runs on it.
DupNext ==
    \/ uuids = 0 /\ \E text \in DupTexts : Plant(text, ShapeTimers)
    \/ ClockTick
    \/ CheckTimers
    \/ PollerStep({"settled"})

DupSpec == Init /\ [][DupNext]_vars

\* OthersSpec: Spec with a caller that never asks for the removal of the
\* first timer, which is left to the poller.
OthersNext ==
    /\ Next
    /\ caller'[1].op = "remove" => caller'[1].id # Uuid(1)

OthersSpec == Init /\ [][OthersNext]_vars

\* ------------------------------------------------------------------ claims
\* the uuid numbers of the records a showTimers() result lists
ShownNums(shown) == { IdNum(shown[i].id) : i \in 1..Len(shown) }

\* a showTimers() result lists exactly the timers of `live`, once each, with
\* the stop time they were created with
ListsExactly(shown, live) ==
    /\ Len(shown) = Cardinality(live)
    /\ ShownNums(shown) = live
    /\ \A i \in 1..Len(shown) :
          /\ HasUuidLength(shown[i].id)
          /\ shown[i].stop = hist.born[IdNum(shown[i].id)]
          /\ shown[i].start # NaN /\ shown[i].start <= shown[i].stop

\* C2: after any sequence of completed, non-overlapping createTimer and
\* removeTimer calls on an initially empty file, with no poller, showTimers()
\* succeeds and returns exactly one record per timer created and not yet
\* removed, with the id createTimer returned, and no other record.
C2_ShowListsLive ==
    \A c \in Callers :
        (caller[c].pc = "done" /\ caller[c].op = "show")
            => (caller[c].result = "ok" /\ ListsExactly(caller[c].shown, hist.live))

\* the same, for the JSON manager alone
C2_ShowListsLiveJson == encoding = "JSON" => C2_ShowListsLive

\* timer n has been delivered: its callback was invoked exactly once and
\* showTimers() would not list it
DeliveredOnce(n) == hist.calls[n] = 1 /\ Uuid(n) \notin ListedIds

\* C1: with one poller and no interfering operation, every timer created by
\* createTimer is eventually delivered once its stop time has passed: the
\* callback is invoked exactly once with its id, never twice, and
\* showTimers() no longer lists it.
C1_EveryTimerDelivered ==
    \A n \in 1..MaxTimers :
        /\ [](hist.calls[n] <= 1)
        /\ [](((hist.born[n] # 0 /\ hist.born[n] <= now)) => <>[]DeliveredOnce(n))

\* the same, for the JSON manager alone
C1_EveryTimerDeliveredJson == (encoding = "JSON") => C1_EveryTimerDelivered

\* the step invokes the callback for uuid n (n = 0: for an id that is no uuid)
Invokes(n) == hist'.calls[n] # hist.calls[n]

\* a pass is at its callback invocation for uuid n, with a record that has
\* expired, has the stop it was created with and is the one line that the
\* pass's removeTimer dropped from the file
InvokedAsRemoved(n) ==
    \E p \in Slots :
        /\ pass[p].pc = "callback"
        /\ IdNum(CallbackArg(pass[p]).id) = n
        /\ n # 0
        /\ CallbackArg(pass[p]).stop # NaN
        /\ CallbackArg(pass[p]).stop <= now
        /\ CallbackArg(pass[p]).stop = hist.born[n]
        /\ pass[p].dropped = << CallbackArg(pass[p]) >>

\* C3: the callback is never invoked early.  Every invocation made by a poll
\* pass is for a record whose stop is at or before the current time at the
\* moment of the invocation, and the record passed is the one the pass's
\* removeTimer found in the file and dropped from it (the timer as created).
C3_NeverEarly ==
    [][\A n \in 0..MaxTimers : Invokes(n) => InvokedAsRemoved(n)]_vars

\* the same, for the JSON manager alone
C3_NeverEarlyJson ==
    [][encoding = "JSON" =>
          \A n \in 0..MaxTimers : Invokes(n) => InvokedAsRemoved(n)]_vars

\* the step constructs a new manager
Constructs == hist'.restarts # hist.restarts

\* record r, listed at the last restart, has expired
PersistedExpired(n) ==
    \E i \in 1..Len(hist.persisted) :
        /\ hist.persisted[i].id = Uuid(n)
        /\ Expired(hist.persisted[i].stop, now)

\* the constructor leaves an existing file as it is and creates an absent one
\* empty
ConstructKeeps ==
    /\ file.exists => file' = file
    /\ ~file.exists => file' = [exists |-> TRUE, text |-> EmptyText]
    /\ Listing(file') = Listing(file)

\* a showTimers() on the new instance, before its poller is started, returns
\* what the file listed when the previous instance stopped
ShowsPersisted ==
    \A c \in Callers :
        (/\ caller[c].pc = "done" /\ caller[c].op = "show"
         /\ hist.restarts > 0 /\ intervals = 0)
            => (caller[c].result = "ok" /\ caller[c].shown = hist.persisted)

\* C4: timers survive a restart.  Constructing a manager on a path whose
\* file exists leaves the file as it is, and an absent file is created
\* empty; showTimers() on the new instance, before its poller is started,
\* returns the records the file held when the previous instance stopped; and
\* a poller started on the new instance delivers those of them that have
\* expired.
C4_SurvivesRestart ==
    /\ [][Constructs => ConstructKeeps]_vars
    /\ [](ShowsPersisted)
    /\ \A n \in 1..MaxTimers :
            [](hist.restarts = MaxRestart /\ PersistedExpired(n) => <>(hist.calls[n] >= 1))

\* the same, for the JSON manager alone
C4_SurvivesRestartJson ==
    /\ [][encoding = "JSON" /\ Constructs => ConstructKeeps]_vars
    /\ [](encoding = "JSON" => ShowsPersisted)
    /\ \A n \in 1..MaxTimers :
            [](encoding = "JSON" /\ hist.restarts = MaxRestart /\ PersistedExpired(n)
                  => <>(hist.calls[n] >= 1))

\* the constructor's part alone, for both managers
C4_ConstructorKeepsFile ==
    /\ [][Constructs => ConstructKeeps]_vars
    /\ [](ShowsPersisted)

\* C5: in a poll pass the removal of an expired record is persisted before
\* the callback is invoked.  At the moment the callback is invoked for id X
\* the file holds no record with id X, and while a pass's removeTimer has
\* failed no callback is invoked.
C5_RemovedBeforeCallback ==
    /\ [][\A n \in 1..MaxTimers : Invokes(n) => Uuid(n) \notin ListedIds]_vars
    /\ [][(\E p \in Slots : pass[p].why = "remove") => hist'.calls = hist.calls]_vars

\* the passes in progress
InProgress == { p \in Slots : pass[p].pc # "idle" }

\* the step is a tick that returns at the lock test, the first one during
\* the pass in progress
DropsTick == hist'.dropped /\ ~hist.dropped

\* the step starts a pass
StartsPass == \E p \in Slots : pass[p].pc = "idle" /\ pass'[p].pc # "idle"

\* C6: non-reentrancy.  At most one poll pass is executing at any time; a
\* tick that fires while a pass is running reads nothing, removes nothing,
\* invokes no callback and leaves the lock untouched; and it is not queued:
\* a pass starts only at a tick that finds no pass in progress.
C6_NonReentrant ==
    /\ [](Cardinality(InProgress) <= 1)
    /\ [][DropsTick =>
            /\ InProgress # {}
            /\ UNCHANGED << file, checkLock, pass, running, intervals, caller >>
            /\ hist'.calls = hist.calls]_vars
    /\ [][StartsPass => (InProgress = {} /\ ~checkLock /\ checkLock')]_vars

\* a tick has been dropped during a pass that is past its removal
C6_Witness ==
    hist.dropped /\ \E p \in Slots : pass[p].pc = "callback"

\* C7: the lock is released on every exit path of a pass.  The lock is held
\* exactly while a pass is in progress, so after a pass has ended, normally
\* or by a failed read, decode, removeTimer or callback, checkLock is false
\* and the next tick starts a pass.
C7_LockReleased == checkLock <=> (InProgress # {})

\* a pass has ended by an error and the lock is free
C7_Witness == hist.recovered /\ InProgress = {} /\ ~checkLock

\* the step ends a pass's try block by an error
FailsPass == \E p \in Slots : pass[p].why = "none" /\ pass'[p].why # "none"

SomeExpired(lines) ==
    \E i \in 1..Len(lines) :
        Decodes(encoding, lines[i]) /\ Expired(Decode(encoding, lines[i]).stop, now)

\* C9: a callback failure does not abort the pass.  No pass ends because of
\* the callback while records that have expired are still unprocessed.
C9_RestProcessed ==
    \A p \in Slots : pass[p].why = "callback" => ~SomeExpired(pass[p].lines)

\* C10: the callback is awaited.  While a callback's promise is pending the
\* lock is held by the pass that invoked it, and that pass takes no step.
C10_CallbackAwaited ==
    /\ [](\A id \in running :
            checkLock /\ \E p \in Slots : pass[p].pc # "idle" /\ pass[p].cur.id = id)
    /\ [][running # {} => pass' = pass]_vars

\* the step is the writeFile of the removeTimer call of pass p
PassRewrites(p) == pass[p].pc = "rm_write" /\ pass'[p].pc = "callback"

\* C11: a timer created after a pass has read the file and before the pass's
\* removal rewrites it is unaffected.  The rewrite of a pass removes only the
\* record with the matched id: every other id that has a record in the file
\* just before the writeFile has one just after it.
C11_RewriteKeepsOthers ==
    [][\A p \in Slots :
          PassRewrites(p) =>
             \A n \in 1..MaxTimers :
                (Uuid(n) \in ListedIds /\ Uuid(n) # pass[p].cur.id)
                    => Uuid(n) \in ListedIdsOf(file')]_vars

\* a caller's removeTimer for uuid n has resolved successfully
CallerRemoved(n) ==
    \E c \in Callers :
        /\ caller[c].pc = "done" /\ caller[c].op = "remove"
        /\ caller[c].result = "ok" /\ caller[c].id = Uuid(n)

\* a pass's removeTimer for uuid n has resolved successfully
PassRemoved(n) ==
    \/ hist.calls[n] >= 1
    \/ \E p \in Slots : pass[p].pc = "callback" /\ pass[p].cur.id = Uuid(n)

\* C12: when a caller's removeTimer(id) and a pass target the same id, the
\* removal that runs second fails.  The callback is not invoked for an id
\* whose removal by a caller has just succeeded, and a caller's removeTimer
\* does not succeed for an id that a pass has removed.
C12_SecondRemovalFails ==
    [][\A n \in 1..MaxTimers :
          /\ Invokes(n) => ~CallerRemoved(n)
          /\ (CallerRemoved(n)' /\ ~CallerRemoved(n)) => ~PassRemoved(n)]_vars

\* a line with too few fields (fixed-field encoding) or that is not JSON
\* (structured encoding)
MalformedLine(enc, line) == IF enc = "JSON" THEN ~JsonParses(line) ELSE Len(line) < 3

HasMalformedLine(f) ==
    /\ f.exists
    /\ \E i \in 1..Len(NonBlank(f.text)) : MalformedLine(encoding, NonBlank(f.text)[i])

\* the step is the start of a createTimer or removeTimer call of caller c
StartsMutation(c) ==
    caller[c].pc = "idle" /\ caller'[c].op \in {"create", "remove"}

\* C13: corrupt-file rejection.  A createTimer or removeTimer call made while
\* the file contains a malformed line fails with an error, takes no further
\* step, and leaves the file exactly as it was.
C13_CorruptFileRejected ==
    [][\A c \in Callers :
          (StartsMutation(c) /\ HasMalformedLine(file)) =>
             /\ caller'[c].pc = "done"
             /\ caller'[c].result \in {"syntax", "invalid_length"}
             /\ file' = file
             /\ uuids' = uuids]_vars

\* a removeTimer call has failed on a file with a malformed line
C13_Witness ==
    /\ HasMalformedLine(file)
    /\ \E c \in Callers :
          /\ caller[c].pc = "done" /\ caller[c].op = "remove"
          /\ caller[c].result = "syntax"

\* the step settles a removeTimer call of caller c
SettlesRemove(c) ==
    caller[c].pc # "done" /\ caller'[c].pc = "done" /\ caller'[c].op = "remove"

\* id has no record in the file, or a removeTimer(id) has succeeded before
Absent(id) == id \notin ListedIds \/ IdNum(id) \notin hist.live

\* C14: removeTimer(id) for an id that has no record in the file fails with
\* the not-found error and leaves the file unchanged; so does a removeTimer(id)
\* that follows a successful removeTimer(id).
C14_AbsentIdNotFound ==
    [][\A c \in Callers :
          (SettlesRemove(c) /\ file.exists /\ Absent(caller'[c].id)) =>
             (caller'[c].result = "not_found" /\ file' = file)]_vars

\* the step is the start of a createTimer call of caller c
StartsCreate(c) == caller[c].pc = "idle" /\ caller'[c].op = "create"

\* the step is the appendFile of a createTimer(0) call of caller c
AppendsZero(c) ==
    caller[c].pc = "create_append" /\ caller[c].len = 0 /\ caller'[c].pc = "done"

\* file f lists a record with this id whose stop equals its start
ListsZeroLength(f, id) ==
    \E i \in 1..Len(Listing(f)) :
        /\ Listing(f)[i].id = id
        /\ Listing(f)[i].start # NaN
        /\ Listing(f)[i].stop = Listing(f)[i].start

\* C15: createTimer with a negative duration fails, hands out no id and
\* leaves the file unchanged; createTimer(0), on a file that is present and
\* passes validation, succeeds, and the file then holds a record with the
\* returned id and stop = start.
C15_DurationValidated ==
    [][\A c \in Callers :
          /\ (StartsCreate(c) /\ caller'[c].len < 0) =>
                /\ caller'[c].pc = "done"
                /\ caller'[c].result = "invalid_length"
                /\ file' = file
                /\ uuids' = uuids
          /\ (StartsCreate(c) /\ caller'[c].len = 0
                /\ file.exists /\ SyntaxOk(encoding, file.text)) =>
                caller'[c].pc = "create_append"
          /\ AppendsZero(c) =>
                (caller'[c].result = "ok" /\ ListsZeroLength(file', caller[c].id))]_vars

\* the step cancels a handle
Cancels == intervals' < intervals

\* C16: while no interval is registered no pass starts; cancelling a handle
\* leaves a pass in progress, the lock and the file as they are; and a pass
\* in progress, cancelled or not, ends with the lock released.
C16_CancelLetsPassFinish ==
    /\ [][/\ StartsPass => (intervals > 0 /\ intervals' > 0)
          /\ Cancels => (pass' = pass /\ checkLock' = checkLock /\ file' = file)]_vars
    /\ (intervals = 0 /\ InProgress # {}) ~> (InProgress = {} /\ ~checkLock)

\* a pass that was cancelled after it removed a timer has reached its finally
\* block
C16_Witness ==
    /\ intervals = 0
    /\ checkLock
    /\ \E p \in Slots : pass[p].pc = "finally" /\ pass[p].why = "none"
    /\ \E n \in 1..MaxTimers : hist.calls[n] >= 1

\* C17: no two non-blank lines of the file carry the same id, whatever the
\* interleaving of createTimer, removeTimer and poll passes.
C17_IdsUnique ==
    file.exists =>
        \A i, j \in 1..Len(NonBlank(file.text)) :
            LineId(encoding, NonBlank(file.text)[i]) = LineId(encoding, NonBlank(file.text)[j])
                => i = j

\* two records in the file while a removal by the caller and one by the
\* poller are both between their read and their write
C17_Witness ==
    /\ file.exists
    /\ Len(NonBlank(file.text)) >= 2
    /\ caller[1].pc = "remove_write"
    /\ \E p \in Slots : pass[p].pc = "rm_write"

\* the line is one well-formed record of the encoding
WellFormed(enc, line) == IF enc = "JSON" THEN JsonLineOk(line) ELSE PlainLineOk(line)

\* C18: starting from an empty file, after any sequence of createTimer and
\* removeTimer calls every non-blank line of the file is one well-formed
\* record, so that checkTimerfileSyntax accepts the file.
C18_FileStaysValid ==
    file.exists =>
        /\ \A i \in 1..Len(NonBlank(file.text)) :
              WellFormed(encoding, NonBlank(file.text)[i])
        /\ SyntaxOk(encoding, file.text)

\* the step is the appendFile of the createTimer call that was handed id n
AppendsOwn(n) ==
    \E c \in Callers :
        /\ caller[c].pc = "create_append"
        /\ caller[c].id = Uuid(n)
        /\ caller'[c].pc = "done"

\* C19: a record with a given id appears in the file only in the step in
\* which its createTimer appends it; once it is gone, no step of any
\* operation brings it back.
C19_NeverReappears ==
    [][\A n \in 1..MaxTimers :
          (Uuid(n) \in ListedIdsOf(file') /\ Uuid(n) \notin ListedIds)
              => AppendsOwn(n)]_vars

\* the record read from a line is the one its createTimer wrote: numeric
\* start and stop, stop >= start, and the stop time it was created with
AsCreated(r) ==
    /\ r.start # NaN
    /\ r.stop # NaN
    /\ r.stop >= r.start
    /\ IdNum(r.id) \in 1..MaxTimers
    /\ r.stop = hist.born[IdNum(r.id)]

\* C20: after any sequence of createTimer and removeTimer calls every record
\* in the file has stop >= start and is as its createTimer wrote it.
C20_StopNotBeforeStart ==
    file.exists =>
        \A i \in 1..Len(NonBlank(file.text)) :
            Decodes(encoding, NonBlank(file.text)[i])
                => AsCreated(Decode(encoding, NonBlank(file.text)[i]))

\* the line has the shape of a record: the right number of fields, a
\* 36-character id, numeric start and stop and, in JSON, a title and a
\* description that are strings when present
ExpectedShape(enc, line) ==
    IF enc = "JSON"
      THEN /\ JsonParses(line)
           /\ HasUuidLength(line[1])
           /\ ToNumber(line[2]) # NaN
           /\ ToNumber(line[3]) # NaN
           /\ (line[4] = <<>> \/ line[4][1][1] = "str")
           /\ (line[5] = <<>> \/ line[5][1][1] = "str")
      ELSE /\ Len(line) = 3
           /\ HasUuidLength(line[1])
           /\ ToNumber(line[2]) # NaN
           /\ ToNumber(line[3]) # NaN

\* every non-blank line of file f has the shape of a record
AllExpectedShape(f) ==
    \A i \in 1..Len(NonBlank(f.text)) : ExpectedShape(encoding, NonBlank(f.text)[i])

\* the step runs checkTimerfileSyntax on the file: a removeTimer call, or a
\* createTimer call with a valid length, starts on a file that is present
Validates(c) ==
    /\ caller[c].pc = "idle"
    /\ caller'[c].op \in {"create", "remove"}
    /\ caller'[c].len >= 0
    /\ file.exists

\* C21: validation fails exactly on the files that hold a line without the
\* expected shape: a wrong field count, a non-numeric start or stop, an id
\* that is not 36 characters long or, in JSON, a title or description that
\* is present and no string.
C21_ValidationByShape ==
    [][\A c \in Callers : Validates(c) =>
          ((caller'[c].pc = "done" /\ caller'[c].result = "syntax")
              <=> ~AllExpectedShape(file))]_vars

\* the record createTimer builds in this step for caller c, as showTimers
\* should return it
CreatedRecord(c) ==
    Timer(caller'[c].id, now, now + caller'[c].len,
          IF encoding = "JSON" THEN caller'[c].opt[1] ELSE 0,
          IF encoding = "JSON" THEN caller'[c].opt[2] ELSE 0)

\* the step builds the line of a new record for caller c
BuildsLine(c) == caller[c].pc = "idle" /\ caller'[c].pc = "create_append"

\* the step ends the stream loop of a removeTimer call of caller c with the
\* text to write
BuildsRewrite(c) == caller[c].pc = "remove_stream" /\ caller'[c].pc = "remove_write"

Shows(c) == caller[c].pc = "idle" /\ caller'[c].op = "show" /\ file.exists

\* file f holds a non-blank line that is not a well-formed record
HasIllFormedLine(f) ==
    \E i \in 1..Len(NonBlank(f.text)) : ~WellFormed(encoding, NonBlank(f.text)[i])

\* C23: showTimers() on a file that holds a non-blank line that is not a
\* well-formed record fails instead of returning a list.
C23_ShowRejectsMalformed ==
    [][\A c \in Callers : (Shows(c) /\ HasIllFormedLine(file)) =>
          caller'[c].result # "ok"]_vars

\* the step appends the line of a createTimer call of caller c
Appends(c) == caller[c].pc = "create_append" /\ caller'[c].pc = "done"

\* file f lists a record with this id, title and description
ListsTitled(f, id, opt) ==
    \E i \in 1..Len(Listing(f)) :
        /\ Listing(f)[i].id = id
        /\ Listing(f)[i].title = opt[1]
        /\ Listing(f)[i].description = opt[2]

\* the list showTimers returned gives every record the title and the
\* description it was created with
ShownAsStored(shown) ==
    \A i \in 1..Len(shown) :
        /\ shown[i].title = hist.opts[IdNum(shown[i].id)][1]
        /\ shown[i].description = hist.opts[IdNum(shown[i].id)][2]

WritesRemoval(c) == caller[c].pc = "remove_write" /\ caller'[c].pc = "done"

\* the records of a list other than those with this id, in order
Without(list, id) == SelectSeq(list, LAMBDA r : r.id # id)

\* C25: a removeTimer(id) that succeeds, with no other file operation
\* between its read and its write, leaves exactly the other records of the
\* file, each unchanged and in the same order, and no record with the id.
C25_RemoveOnlyTarget ==
    [][\A c \in Callers : WritesRemoval(c) =>
          /\ caller'[c].result = "ok"
          /\ Listing(file') = Without(Listing(file), caller[c].id)
          /\ caller[c].id \notin ListedIdsOf(file')
          /\ Len(Listing(file')) = Len(Listing(file)) - 1]_vars

\* a removeTimer has succeeded and left two other records in the file
C25_Witness ==
    /\ caller[1].pc = "done" /\ caller[1].op = "remove" /\ caller[1].result = "ok"
    /\ Len(Listing(file)) >= 2

\* list `after` is list `before` followed by one record r
ExtendsByOne(before, after, id, length) ==
    /\ Len(after) = Len(before) + 1
    /\ SubSeq(after, 1, Len(before)) = before
    /\ after[Len(after)].id = id
    /\ after[Len(after)].start # NaN
    /\ after[Len(after)].stop # NaN
    /\ after[Len(after)].stop - after[Len(after)].start = length

\* C26: a createTimer(d) that succeeds adds one record after the records of
\* the file, with the returned id and stop - start = d, and leaves every
\* record that was in the file as it was.
C26_CreateAppendsOne ==
    [][\A c \in Callers : Appends(c) =>
          /\ caller'[c].result = "ok"
          /\ caller'[c].id = caller[c].id
          /\ ExtendsByOne(Listing(file), Listing(file'), caller[c].id, caller[c].len)]_vars

\* the step is a step of a poll pass
PassSteps == pass' # pass

\* every record of list `before` whose stop lies in the future is in list
\* `after`, unchanged
KeepsFuture(before, after) ==
    \A i \in 1..Len(before) :
        (before[i].stop # NaN /\ before[i].stop > now)
            => \E j \in 1..Len(after) : after[j] = before[i]

\* C27: a poll pass changes the file only in the writeFile of a removeTimer
\* for a record with stop <= now, calls the callback only for such a record,
\* and removes or alters no record whose stop is in the future.
C27_PollerOnlyRemovesExpired ==
    [][PassSteps =>
          /\ file' # file =>
                \E p \in Slots : PassRewrites(p) /\ Expired(pass[p].cur.stop, now)
          /\ hist'.calls # hist.calls =>
                \E p \in Slots : pass[p].pc = "callback" /\ Expired(pass[p].cur.stop, now)
          /\ KeepsFuture(Listing(file), Listing(file'))]_vars

\* the step is the callback call of the pass in slot p
CallsBack(p) == pass[p].pc = "callback" /\ pass'[p].pc # "callback"

\* C28: on a file that holds an id on several lines, the callback is called
\* once for the id, with the record of the last of its lines, and the pass
\* goes on with the remaining lines instead of failing.
C28_DedupKeepsLast ==
    [][\A p \in Slots :
          /\ CallsBack(p) =>
                /\ CallbackArg(pass[p]) = Last(pass[p].dropped)
                /\ hist.calls[IdNum(pass[p].cur.id)] = 0
                /\ pass'[p].pc = "loop"
          /\ pass'[p].why = "none"]_vars

\* C29: with one poller and a caller that creates timers and removes other
\* timers at any moment, the callback is called at most once for the first
\* timer.
C29_AtMostOnce == hist.calls[1] <= 1

\* C30: while a caller holds the successful outcome of its removeTimer(id),
\* no poll pass calls the callback for that id, not even a pass that had
\* read the record before the removal.
C30_CancelEffective ==
    [][\A n \in 1..MaxTimers : CallerRemoved(n) => ~Invokes(n)]_vars

\* C31: every timer whose line was appended and whose stop time has come
\* eventually has its callback invoked, by the poller of the instance that
\* created it or by the poller of the instance constructed after a stop of
\* the process, wherever the process was stopped.
C31_DeliveredAcrossRestart ==
    \A n \in 1..MaxTimers :
        [](hist.born[n] # 0 /\ hist.born[n] <= now => <>(hist.calls[n] >= 1))

\* the file is present and holds a line that checkTimerfileSyntax rejects
Corrupt == file.exists /\ HasIllFormedLine(file)

\* C32: while the file holds a malformed line, no step of a poll pass
\* changes the file or calls the callback, and a pass never ends with the
\* lock held.
C32_CorruptFileBlocksPass ==
    [][/\ (PassSteps /\ Corrupt) => (file' = file /\ hist'.calls = hist.calls)
       /\ \A p \in Slots :
             (pass[p].pc # "idle" /\ pass'[p].pc = "idle"
                /\ hist'.restarts = hist.restarts) => ~checkLock']_vars

\* SnatchSpec: PollSpec's poller and caller, and the caller also removing
\* timers: a createTimer call runs while no pass is in progress, the steps of
\* a removeTimer call interleave with the steps of a pass in every way.
SnatchNext ==
    \/ ClockTick
    \/ CheckTimers
    \/ /\ PassIdle
       /\ \/ CreateTimer(1, 1, <<1, 2>>)
          \/ CreateAppend(1)
          \/ Return(1)
       /\ uuids' <= RaceTimers
    \/ \E id \in KnownIds : RemoveTimer(1, id)
    \/ RemoveStream(1)
    \/ RemoveWrite(1)
    \/ caller[1].op = "remove" /\ Return(1)
    \/ caller[1].op # "create" /\ PollerStep({"settled"})

SnatchSpec == Init /\ [][SnatchNext]_vars

\* The clock advances, the interval is registered and keeps firing, and the
\* file operations of a call and of a pass complete.
FairSnatchSpec ==
    /\ SnatchSpec
    /\ WF_vars(ClockTick)
    /\ WF_vars(CheckTimers)
    /\ WF_vars(PassIdle /\ (CreateAppend(1) \/ Return(1)))
    /\ WF_vars(RemoveStream(1) \/ RemoveWrite(1) \/ (caller[1].op = "remove" /\ Return(1)))
    /\ SF_vars(caller[1].op # "create" /\ PollerStep({"settled"}))

\* a pass has been abandoned because its removeTimer call failed
Abandoned == \E p \in Slots : pass[p].pc = "finally" /\ pass[p].why = "remove"

\* timer n has expired, no removeTimer call for it has completed and its id
\* is in the file
ExpiredInFile(n) ==
    /\ hist.born[n] # 0 /\ hist.born[n] <= now
    /\ n \in hist.live
    /\ Uuid(n) \in ListedIds

\* C33: when a pass is abandoned because removeTimer failed, every timer that
\* has expired and is still in the file is delivered by a later pass, unless
\* a caller removes it.
C33_AbandonedPassLosesNothing ==
    \A n \in 1..MaxTimers :
        [](Abandoned /\ ExpiredInFile(n) => <>(hist.calls[n] >= 1 \/ n \notin hist.live))

\* the step ends the pass in slot p
EndsPass(p) == pass[p].pc = "finally" /\ pass'[p].pc = "idle"

\* the ids of a sequence
IdsOf(due) == { due[i] : i \in 1..Len(due) }

\* C34: in a pass that no other operation interferes with, every record that
\* had expired when the pass read the file is removed and handed to the
\* callback before the pass ends, the records in the order of their lines,
\* and the pass changes the file only by rewriting it without the line of
\* the expired record it is about to deliver.
C34_PassDeliversAllExpired ==
    [][\A p \in Slots :
          /\ EndsPass(p) => pass[p].due = <<>>
          /\ (CallsBack(p) /\ pass[p].cur.id \in IdsOf(pass[p].due)) =>
                /\ Head(pass[p].due) = pass[p].cur.id
                /\ pass[p].cur.id \notin ListedIds
          /\ (pass'[p] # pass[p] /\ file' # file) =>
                /\ PassRewrites(p)
                /\ Expired(pass[p].cur.stop, now)
                /\ Listing(file') = Without(Listing(file), pass[p].cur.id)]_vars

\* OverlapSpec: two callers creating timers, their calls overlapping in every
\* interleaving of their steps, and one of them also removing timers, in
\* calls that overlap no other call.  No poller.
OverlapNext ==
    \/ ClockTick
    \/ /\ caller[1].op # "remove"
       /\ \E c \in Callers :
             \/ \E l \in Lengths : CreateTimer(c, l, <<1, 2>>)
             \/ CreateAppend(c)
             \/ Return(c)
    \/ /\ caller[2].pc = "idle"
       /\ \/ \E id \in KnownIds : RemoveTimer(1, id)
          \/ RemoveStream(1)
          \/ RemoveWrite(1)
          \/ caller[1].op = "remove" /\ Return(1)

OverlapSpec == Init /\ [][OverlapNext]_vars

\* a createTimer call of caller d is between its validation of the file and
\* its appendFile
CreateInProgress(d) == caller[d].pc = "create_append"

\* the ids of the records a showTimers() would return
RecordIds == { Listing(file)[i].id : i \in 1..Len(Listing(file)) }

\* both callers have a createTimer call that resolved with an id
BothCreated == \A c \in Callers : caller[c].op = "create" /\ caller[c].result = "ok"

\* C35: of two createTimer calls in progress at once, each passes validation
\* and each append succeeds and adds the call's record after the records of
\* the file, which stay as they were; when both calls have resolved, both
\* records are in the file.
C35_OverlappingCreatesBothLand ==
    [][/\ \A c, d \in Callers : (c # d /\ CreateInProgress(d)) =>
             /\ (StartsCreate(c) /\ caller'[c].len >= 0) => caller'[c].pc = "create_append"
             /\ Appends(c) =>
                   /\ caller'[c].result = "ok"
                   /\ ExtendsByOne(Listing(file), Listing(file'),
                                   caller[c].id, caller[c].len)
       /\ BothCreated' => \A c \in Callers : caller'[c].id \in RecordIds']_vars
=============================================================================
